---- MODULE Spec2Model ----
(***************************************************************************)
(* Model of the Power BI exporter plugin.                                  *)
(*                                                                         *)
(*   python-exporters/python-with-credentials/exporter.py                  *)
(*       PowerBIExporter: __init__, open, write_row, close                 *)
(*   python-lib/powerbi.py                                                 *)
(*       PowerBI client, assert_response_ok and the error-message helpers, *)
(*       generate_access_token                                             *)
(*                                                                         *)
(* Three specifications share the module:                                  *)
(*   Spec      one export session (constructor, open, write_row*, close)   *)
(*   SpecGroup PowerBI.get_group_id_by_name on enumerated inputs           *)
(*   SpecErr   assert_response_ok / get_error_message on enumerated inputs *)
(*                                                                         *)
(* An HTTP response is a record                                            *)
(*   [status_code, is_json, json, content]                                 *)
(* is_json says whether response.json() parses (and, for PowerBI.post,     *)
(* whether the content type is application/json); json is the parsed body, *)
(* a Python dict modelled as a function from keys to values; content is    *)
(* the raw body text.  A call that raises (an exception or sys.exit) ends  *)
(* the export job: pc becomes "aborted" and no further hook is called.     *)
(***************************************************************************)
EXTENDS Integers, Sequences, FiniteSets, TLC

VARIABLES
    pc,               \* "start", "created", "opened", "closed", "aborted"
    aborted_in,       \* the hook that raised: "__init__", "open", "write_row", "close"
    pbi_overwrite,    \* self.pbi_overwrite
    pbi_buffer_size,  \* self.pbi_buffer_size
    schema,           \* self.schema
    row_index,        \* self.row_index
    row_buffer,       \* self.row_buffer["rows"]
    dsid,             \* self.dsid (None while unbound)
    trace,            \* outbound requests and the printed summary, in order
    written,          \* history: the row objects built by write_row calls, in order
    lib               \* inputs and result of the library call under SpecGroup / SpecErr

vars == <<pc, aborted_in, pbi_overwrite, pbi_buffer_size, schema, row_index,
          row_buffer, dsid, trace, written, lib>>

None == "None"

\* ------------------------------------------------------------------ bounds
MaxBufferSize == 2
MaxRows == 4
MaxDatasets == 2
MaxGroups == 2

\* --------------------------------------------------------- python helpers
\* dict.get(key) with the default None
PyGet(d, key) == IF key \in DOMAIN d THEN d[key] ELSE None

EmptyDict == [k \in {} |-> None]

Resp(status, isjson, js, content) ==
    [status_code |-> status, is_json |-> isjson, json |-> js, content |-> content]

\* str(status_code): the decimal digits, most significant first
RECURSIVE Digits(_)
Digits(n) == IF n < 10 THEN <<n>> ELSE Append(Digits(n \div 10), n % 10)

\* str(response.status_code).startswith('2')          exporter.py:99, :119
StartsWith2(status) == Head(Digits(status)) = 2

\* ------------------------------------------------------ powerbi.py helpers
\* extract_error_message_from_response / get_value_from_path
RECURSIVE get_value_from_path(_, _, _)
get_value_from_path(dictionary, path, default_reply) ==
    IF path = <<>> THEN dictionary
    ELSE IF Head(path) \in DOMAIN dictionary
         THEN get_value_from_path(dictionary[Head(path)], Tail(path), default_reply)
         ELSE default_reply

extract_error_message_from_response(response) ==
    IF response.is_json
    THEN get_value_from_path(response.json, <<"error", "message">>, response.content)
    ELSE response.content

\* get_error_message: the message is kept as its format string and arguments.
\* custom_error_messages = None is normalised to {} by line 242.
get_error_message_no_context(response, while_trying, custom_error_messages) ==
    IF DOMAIN custom_error_messages # {}
       /\ response.status_code \in DOMAIN custom_error_messages
    THEN [fmt |-> "{}", args |-> <<custom_error_messages[response.status_code]>>]
    ELSE [fmt |-> "Error {}: {}",
          args |-> <<response.status_code,
                     extract_error_message_from_response(response)>>]

get_error_message(response, while_trying, custom_error_messages) ==
    IF DOMAIN custom_error_messages # {}
       /\ response.status_code \in DOMAIN custom_error_messages
    THEN [fmt |-> "{}", args |-> <<custom_error_messages[response.status_code]>>]
    ELSE IF while_trying = None
    THEN [fmt |-> "Error {}: {}",
          args |-> <<response.status_code,
                     extract_error_message_from_response(response)>>]
    ELSE [fmt |-> "Error {} while {}: {}",
          args |-> <<response.status_code, while_trying, response.content>>]

\* handle_exception_message: raise, or log and go on
handle_exception_message(message, fail_on_errors) ==
    IF fail_on_errors THEN [outcome |-> "raised", message |-> message]
    ELSE [outcome |-> "logged", message |-> message]

NoMessage == [fmt |-> "", args |-> <<>>]

\* assert_response_ok: what the call does with the response
assert_response_ok(response, while_trying, fail_on_errors, custom_error_messages) ==
    IF response.status_code >= 400
    THEN handle_exception_message(
             get_error_message(response, while_trying, custom_error_messages),
             fail_on_errors)
    ELSE [outcome |-> "ok", message |-> NoMessage]

Raises(result) == result.outcome = "raised"

\* ------------------------------------------------------- PowerBI client
ConfiguredName == "Sales"      \* self.pbi_dataset, config "dataset"
DEFAULT_PBI_TABLE == "dss-data"

\* fieldSetterMap.get(column["type"], "String")
fieldSetterMap(type) ==
    CASE type = "boolean" -> "Boolean"
      [] type \in {"tinyint", "smallint", "int", "bigint"} -> "Int64"
      [] type \in {"float", "double"} -> "Double"
      [] type = "date" -> "dateTime"
      [] OTHER -> "String"

\* get_dataset_by_name: the ids of the listed datasets named `name`, in listing
\* order; data.json() raises on a body that is not JSON; a body without
\* "value" (or with an empty one) gives [].
RECURSIVE MatchingIds(_, _)
MatchingIds(datasets, name) ==
    IF datasets = <<>> THEN <<>>
    ELSE IF Head(datasets).name = name
         THEN <<Head(datasets).id>> \o MatchingIds(Tail(datasets), name)
         ELSE MatchingIds(Tail(datasets), name)

RECURSIVE FirstMatchOnly(_, _)
FirstMatchOnly(datasets, name) ==
    IF datasets = <<>> THEN <<>>
    ELSE IF Head(datasets).name = name
         THEN <<Head(datasets).id>>
         ELSE FirstMatchOnly(Tail(datasets), name)

get_dataset_by_name_first(response, name) ==
    IF ~response.is_json THEN [raised |-> TRUE, ids |-> <<>>]
    ELSE IF "value" \in DOMAIN response.json
         THEN [raised |-> FALSE, ids |-> FirstMatchOnly(response.json.value, name)]
         ELSE [raised |-> FALSE, ids |-> <<>>]

get_dataset_by_name(response, name) ==
    IF ~response.is_json THEN [raised |-> TRUE, ids |-> <<>>]
    ELSE IF "value" \in DOMAIN response.json
         THEN [raised |-> FALSE, ids |-> MatchingIds(response.json.value, name)]
         ELSE [raised |-> FALSE, ids |-> <<>>]

\* "deleting {}".format(dsid) on the dataset ids that occur
deleting(id) ==
    CASE id = "ds-1" -> "deleting ds-1"
      [] id = "ds-2" -> "deleting ds-2"
      [] id = "ds-3" -> "deleting ds-3"
      [] id = "ds-4" -> "deleting ds-4"
      [] id = "ds-new" -> "deleting ds-new"

\* delete_dataset: DELETE, then assert_response_ok(while_trying="deleting <id>")
delete_dataset(response, id) ==
    assert_response_ok(response, deleting(id), TRUE, EmptyDict)

\* create_dataset_from_schema: the payload posted to the datasets collection
create_payload(pbi_dataset, pbi_table, sch) ==
    [name |-> pbi_dataset,
     defaultMode |-> "PushStreaming",
     table |-> pbi_table,
     columns |-> [i \in 1..Len(sch) |->
                    [name |-> sch[i].name, dataType |-> fieldSetterMap(sch[i].type)]]]

\* PowerBI.post: raises on status >= 400 (fail_on_errors), returns the parsed
\* body when the response is JSON and the Response object otherwise.
post(response, fail_on_errors) ==
    IF Raises(assert_response_ok(response, None, fail_on_errors, EmptyDict))
    THEN [raised |-> TRUE, is_dict |-> FALSE, value |-> EmptyDict]
    ELSE IF response.is_json
         THEN [raised |-> FALSE, is_dict |-> TRUE, value |-> response.json]
         ELSE [raised |-> FALSE, is_dict |-> FALSE, value |-> EmptyDict]

\* generate_access_token: POST, assert_response_ok(while_trying=...), response.json()
generate_access_token(response) ==
    IF Raises(assert_response_ok(response, "retrieving access token", TRUE, EmptyDict))
       \/ ~response.is_json
    THEN [raised |-> TRUE, value |-> EmptyDict]
    ELSE [raised |-> FALSE, value |-> response.json]

\* ------------------------------------------------------ enumerated inputs
IdNames == <<"ds-1", "ds-2", "ds-3", "ds-4">>
NewId == "ds-new"
DatasetNames == {"Sales", "sales"}

ErrorBody == [error |-> [message |-> "denied"]]

\* the datasets a listing can hold: up to MaxDatasets entries, distinct ids
Listings ==
    UNION {{[i \in 1..n |-> [id |-> IdNames[i], name |-> f[i]]] :
               f \in [1..n -> DatasetNames]} : n \in 0..MaxDatasets}

TokenResponses ==
    {Resp(200, TRUE, [access_token |-> "tok"], "token"),
     Resp(200, TRUE, [error |-> "invalid_grant"], "invalid_grant"),
     Resp(400, TRUE, [error |-> "invalid_grant"], "invalid_grant"),
     Resp(200, FALSE, EmptyDict, "html")}

ListResponses ==
    {Resp(200, TRUE, [value |-> l], "listing") : l \in Listings}
    \cup {Resp(401, TRUE, ErrorBody, "denied"), Resp(502, FALSE, EmptyDict, "html")}

DeleteResponses ==
    {Resp(200, FALSE, EmptyDict, ""), Resp(404, TRUE, ErrorBody, "denied")}

CreateResponses ==
    {Resp(201, TRUE, [id |-> NewId], "created"),
     Resp(201, TRUE, [name |-> ConfiguredName], "no id"),
     Resp(202, FALSE, EmptyDict, "html"),
     Resp(400, TRUE, ErrorBody, "denied")}

InsertResponses ==
    {Resp(200, FALSE, EmptyDict, ""),
     Resp(302, TRUE, ErrorBody, "moved"),
     Resp(500, TRUE, ErrorBody, "denied"),
     Resp(502, FALSE, EmptyDict, "html")}

Schemas == {<<[name |-> "amt", type |-> "double"]>>}
RowValues == {1, 2, 3}
Rows == {<<v>> : v \in RowValues}

\* -------------------------------------------------------- export session
Event(op, arg, response) == [op |-> op, arg |-> arg, response |-> response]
NoResponse == Resp(0, FALSE, EmptyDict, "")

\* __init__, lines 37-42: the token is missing from the response
token_is_missing_never(js) == FALSE

token_is_missing(js) == PyGet(js, "access_token") = None

\* the deletes of open()'s loop over `ids`, up to and including the first one
\* that raises; dr[k] is the response to the k-th DELETE
RECURSIVE DeleteRun(_, _, _)
DeleteRun(ids, dr, k) ==
    IF k > Len(ids) THEN <<>>
    ELSE <<Event("delete", ids[k], dr[k])>>
         \o (IF Raises(delete_dataset(dr[k], ids[k])) THEN <<>>
             ELSE DeleteRun(ids, dr, k + 1))

DeleteRaised(events) ==
    /\ events # <<>>
    /\ Raises(delete_dataset(events[Len(events)].response, events[Len(events)].arg))

\* open(), line 73: datasets[0]
last_match(datasets) == datasets[Len(datasets)]

first_match(datasets) == datasets[1]

\* open(): the requests it sends, whether it returns, and the id it binds
open_overwrite(sch, lr, dr, cr) ==
    LET found == get_dataset_by_name(lr, ConfiguredName)
        listEv == <<Event("list", ConfiguredName, lr)>>
        dels == DeleteRun(found.ids, dr, 1)
        response == post(cr, TRUE)
        createEv == <<Event("create",
                            create_payload(ConfiguredName, DEFAULT_PBI_TABLE, sch), cr)>>
    IN  IF found.raised
        THEN [ok |-> FALSE, id |-> None, events |-> listEv]
        ELSE IF DeleteRaised(dels)
        THEN [ok |-> FALSE, id |-> None, events |-> listEv \o dels]
        ELSE IF response.raised \/ ~response.is_dict
        THEN [ok |-> FALSE, id |-> None, events |-> listEv \o dels \o createEv]
        ELSE IF PyGet(response.value, "id") = None
        THEN [ok |-> FALSE, id |-> None, events |-> listEv \o dels \o createEv]
        ELSE [ok |-> TRUE, id |-> response.value.id,
              events |-> listEv \o dels \o createEv]

open_reuse(lr) ==
    LET found == get_dataset_by_name(lr, ConfiguredName)
        listEv == <<Event("list", ConfiguredName, lr)>>
    IN  IF found.raised
        THEN [ok |-> FALSE, id |-> None, events |-> listEv]
        ELSE IF Len(found.ids) > 0
        THEN [ok |-> TRUE, id |-> first_match(found.ids), events |-> listEv]
        ELSE [ok |-> FALSE, id |-> None, events |-> listEv]

\* write_row, lines 82-84: zip(self.schema["columns"], row) into a dict
\* (a later column of the same name overrides an earlier one)
row_object(sch, row) ==
    LET n == IF Len(sch) < Len(row) THEN Len(sch) ELSE Len(row)
    IN  [c \in {sch[i].name : i \in 1..n} |->
            row[CHOOSE i \in 1..n :
                    /\ sch[i].name = c
                    /\ \A j \in 1..n : sch[j].name = c => j <= i]]

\* write_row, line 86
flush_at_capacity(length, size) == length >= size

flush_needed(length, size) == length > size

\* write_row, line 102: the buffer after a flush
buffer_kept(rows) == rows

buffer_after_flush(rows) == <<>>

\* close, line 106
close_flush_never(length) == FALSE

close_flush_needed(length) == length > 0

\* lines 99-101 and 119-121: a non-2xx status prints response.json(), which
\* raises when the body is not JSON
report_raises(response) ==
    ~StartsWith2(response.status_code) /\ ~response.is_json

Init ==
    /\ pc = "start"
    /\ aborted_in = None
    /\ pbi_overwrite \in BOOLEAN
    /\ pbi_buffer_size \in 0..MaxBufferSize
    /\ schema = <<>>
    /\ row_index = 0
    /\ row_buffer = <<>>
    /\ dsid = None
    /\ trace = <<>>
    /\ written = <<>>
    /\ lib = None

\* PowerBIExporter.__init__
Construct ==
    /\ pc = "start"
    /\ \E tr \in TokenResponses :
         LET response == generate_access_token(tr)
         IN  /\ trace' = Append(trace, Event("auth", None, tr))
             /\ IF response.raised \/ token_is_missing(response.value)
                THEN pc' = "aborted" /\ aborted_in' = "__init__"
                ELSE pc' = "created" /\ UNCHANGED aborted_in
    /\ UNCHANGED <<pbi_overwrite, pbi_buffer_size, schema, row_index, row_buffer,
                   dsid, written, lib>>

\* PowerBIExporter.open
Open ==
    /\ pc = "created"
    /\ \E sch \in Schemas, lr \in ListResponses, cr \in CreateResponses,
          dr \in [1..MaxDatasets -> DeleteResponses] :
         LET r == IF pbi_overwrite THEN open_overwrite(sch, lr, dr, cr)
                  ELSE open_reuse(lr)
         IN  /\ schema' = sch
             /\ trace' = trace \o r.events
             /\ dsid' = r.id
             /\ IF r.ok THEN pc' = "opened" /\ UNCHANGED aborted_in
                ELSE pc' = "aborted" /\ aborted_in' = "open"
    /\ UNCHANGED <<pbi_overwrite, pbi_buffer_size, row_index, row_buffer, written, lib>>

\* PowerBIExporter.write_row
WriteRow ==
    /\ pc = "opened"
    /\ Len(written) < MaxRows
    /\ \E row \in Rows :
         LET row_obj == row_object(schema, row)
             rows == Append(row_buffer, row_obj)
         IN  /\ written' = Append(written, row_obj)
             /\ IF flush_needed(Len(rows), pbi_buffer_size)
                THEN \E response \in InsertResponses :
                       /\ trace' = Append(trace, Event("insert", rows, response))
                       /\ IF report_raises(response)
                          THEN /\ row_buffer' = rows
                               /\ pc' = "aborted" /\ aborted_in' = "write_row"
                               /\ UNCHANGED row_index
                          ELSE /\ row_buffer' = buffer_after_flush(rows)
                               /\ row_index' = row_index + 1
                               /\ UNCHANGED <<pc, aborted_in>>
                ELSE /\ row_buffer' = rows
                     /\ row_index' = row_index + 1
                     /\ UNCHANGED <<trace, pc, aborted_in>>
    /\ UNCHANGED <<pbi_overwrite, pbi_buffer_size, schema, dsid, lib>>

\* PowerBIExporter.close
Close ==
    /\ pc = "opened"
    /\ IF close_flush_needed(Len(row_buffer))
       THEN \E response \in InsertResponses :
              IF report_raises(response)
              THEN /\ trace' = Append(trace, Event("insert", row_buffer, response))
                   /\ pc' = "aborted" /\ aborted_in' = "close"
              ELSE /\ trace' = trace \o <<Event("insert", row_buffer, response),
                                          Event("summary", dsid, NoResponse)>>
                   /\ pc' = "closed" /\ UNCHANGED aborted_in
       ELSE /\ trace' = Append(trace, Event("summary", dsid, NoResponse))
            /\ pc' = "closed" /\ UNCHANGED aborted_in
    /\ UNCHANGED <<pbi_overwrite, pbi_buffer_size, schema, row_index, row_buffer,
                   dsid, written, lib>>

Next == Construct \/ Open \/ WriteRow \/ Close

Spec == Init /\ [][Next]_vars

\* ------------------------------------------------- reading the history
OfOp(t, op) == SelectSeq(t, LAMBDA e : e.op = op)
Inserts == OfOp(trace, "insert")
Deletes == OfOp(trace, "delete")
Creates == OfOp(trace, "create")
Lists == OfOp(trace, "list")

RECURSIVE ConcatArgs(_)
ConcatArgs(events) ==
    IF events = <<>> THEN <<>> ELSE Head(events).arg \o ConcatArgs(Tail(events))

Args(events) == [i \in 1..Len(events) |-> events[i].arg]

\* the datasets of a listing response (none when the body carries no "value")
Listed(response) ==
    IF response.is_json /\ "value" \in DOMAIN response.json
    THEN response.json.value ELSE <<>>

NamedIds(datasets) ==
    LET named == SelectSeq(datasets, LAMBDA d : d.name = ConfiguredName)
    IN  [i \in 1..Len(named) |-> named[i].id]

CloseCalled == pc = "closed" \/ aborted_in = "close"
OpenReturned == pc \in {"opened", "closed"} \/ aborted_in \in {"write_row", "close"}

\* C1: in an opened session whose write_row calls have all returned, once
\* buffer_size + 1 rows are written exactly one insert request has been sent,
\* it carries those buffer_size + 1 rows, and the buffer is empty; with fewer
\* than buffer_size + 1 write_row calls made and close() not yet called, no
\* insert request has been sent.
C1_FlushAfterCapacityPlusOne ==
    /\ (pc = "opened" /\ row_index = pbi_buffer_size + 1) =>
          /\ Len(Inserts) = 1
          /\ Len(Inserts[1].arg) = pbi_buffer_size + 1
          /\ Inserts[1].arg = written
          /\ row_buffer = <<>>
    /\ (~CloseCalled /\ Len(written) < pbi_buffer_size + 1) => Inserts = <<>>

C1_Witness ==
    /\ pc = "opened" /\ pbi_buffer_size = 2 /\ row_index = 3
    /\ Len(Inserts) = 1 /\ row_buffer = <<>>

ThreeRows == <<[amt |-> 1], [amt |-> 2], [amt |-> 3]>>

Scenario ==
    /\ pbi_buffer_size = 2 /\ pbi_overwrite
    /\ written = ThreeRows

\* C2 as claimed: buffer_size 2, overwrite, rows [1],[2],[3] then close():
\* two insert requests, one of 2 rows and a close-time one of 1 row.
C2_TwoThenOne ==
    (Scenario /\ pc = "closed") =>
        /\ Len(Inserts) = 2
        /\ Len(Inserts[1].arg) = 2
        /\ Len(Inserts[2].arg) = 1

\* C2 amended: in that scenario exactly one insert request is sent, by the
\* third write_row, with all 3 rows; the buffer is then empty and close()
\* sends no further insert.
C2_OneFlushOfThree ==
    (Scenario /\ pc \in {"opened", "closed"}) =>
        /\ Len(Inserts) = 1
        /\ Inserts[1].arg = ThreeRows
        /\ row_buffer = <<>>

C2_Witness ==
    /\ Scenario /\ pc = "closed"
    /\ Args(Deletes) = <<"ds-1", "ds-2">>
    /\ Len(Creates) = 1 /\ dsid = NewId
    /\ trace[Len(trace)].op = "summary"

\* C3 as claimed: an insert request answered with a non-2xx status ends the
\* job: it is the last thing sent, nothing is written or summarised after it.
C3_NonOkInsertTerminates ==
    \A i \in 1..Len(trace) :
        (trace[i].op = "insert" /\ ~StartsWith2(trace[i].response.status_code)) =>
            /\ pc = "aborted"
            /\ i = Len(trace)

AuthFailed(response) ==
    \/ response.status_code >= 400
    \/ ~response.is_json
    \/ "access_token" \notin DOMAIN response.json

Mutating == {"delete", "create", "insert"}

\* C4: one token request per session, sent first by the constructor; when it
\* fails (error status, or no access_token in the response) the session is
\* aborted in the constructor and no delete, create or insert is ever sent.
C4_AuthOnceAndFatal ==
    /\ Len(OfOp(trace, "auth")) = (IF pc = "start" THEN 0 ELSE 1)
    /\ pc # "start" =>
          /\ trace[1].op = "auth"
          /\ AuthFailed(trace[1].response) =>
                /\ pc = "aborted" /\ aborted_in = "__init__"
                /\ \A i \in 1..Len(trace) : trace[i].op \notin Mutating
          /\ ~AuthFailed(trace[1].response) => aborted_in # "__init__"

C4_Witness ==
    /\ pc = "aborted" /\ aborted_in = "__init__"
    /\ Len(trace) = 1
    /\ trace[1].response.status_code = 200
    /\ trace[1].response.is_json
    /\ "access_token" \notin DOMAIN trace[1].response.json

HasId(response) == response.is_json /\ "id" \in DOMAIN response.json

\* C5: with overwrite, open() sends one DELETE per listed dataset named as
\* configured, in listing order and each once, all before the single create;
\* when it returns, the bound id is the id in the create response; a failed
\* delete or a create response without id aborts open() with no id bound.
C5_OverwriteDeletesAllThenCreates ==
    pbi_overwrite =>
        /\ Len(Creates) <= 1
        /\ \A i, j \in 1..Len(trace) :
              (trace[i].op = "delete" /\ trace[j].op = "create") => i < j
        /\ Creates # <<>> => Args(Deletes) = NamedIds(Listed(Lists[1].response))
        /\ OpenReturned =>
              /\ Len(Creates) = 1
              /\ HasId(Creates[1].response)
              /\ dsid = Creates[1].response.json.id
              /\ dsid # None
        /\ \A i \in 1..Len(Deletes) :
              Deletes[i].response.status_code >= 400 =>
                  /\ aborted_in = "open" /\ dsid = None
                  /\ Creates = <<>>
        /\ \A i \in 1..Len(Creates) :
              ~HasId(Creates[i].response) => (aborted_in = "open" /\ dsid = None)

C5_Witness ==
    /\ pbi_overwrite /\ pc = "opened"
    /\ Len(Listed(Lists[1].response)) = 2
    /\ Args(Deletes) = <<"ds-2">>
    /\ dsid = NewId

\* C6: without overwrite no DELETE and no create is ever sent; when open()
\* returns, the bound id is that of the first listed dataset named as
\* configured; when no listed dataset has the name, open() aborts, no id is
\* bound and no insert is ever sent.
C6_ReuseBindsFirstMatch ==
    ~pbi_overwrite =>
        /\ Deletes = <<>> /\ Creates = <<>>
        /\ OpenReturned =>
              /\ NamedIds(Listed(Lists[1].response)) # <<>>
              /\ dsid = NamedIds(Listed(Lists[1].response))[1]
        /\ (Lists # <<>> /\ NamedIds(Listed(Lists[1].response)) = <<>>) =>
              /\ pc = "aborted" /\ aborted_in = "open"
              /\ dsid = None
              /\ Inserts = <<>>

C6_Witness ==
    /\ ~pbi_overwrite /\ pc = "opened"
    /\ NamedIds(Listed(Lists[1].response)) = <<"ds-1", "ds-2">>
    /\ dsid = "ds-1"

\* C7: a close() call with rows buffered sends exactly one insert request,
\* carrying exactly the buffered rows; with an empty buffer it sends none;
\* and when it returns, the last thing emitted, after any flush, is the
\* summary naming the bound dataset id.
C7_CloseFlushesRemainder ==
    [][(pc = "opened" /\ (pc' = "closed" \/ aborted_in' = "close")) =>
          /\ row_buffer # <<>> =>
                /\ Len(trace') >= Len(trace) + 1
                /\ SubSeq(trace', 1, Len(trace)) = trace
                /\ trace'[Len(trace) + 1].op = "insert"
                /\ trace'[Len(trace) + 1].arg = row_buffer
                /\ Len(OfOp(trace', "insert")) = Len(Inserts) + 1
          /\ row_buffer = <<>> => OfOp(trace', "insert") = Inserts
          /\ pc' = "closed" =>
                /\ trace'[Len(trace')].op = "summary"
                /\ trace'[Len(trace')].arg = dsid
                /\ dsid # None
                /\ Len(OfOp(trace', "summary")) = 1
      ]_vars

C7_Witness ==
    /\ pc = "closed" /\ pbi_buffer_size = 2
    /\ Len(trace) >= 2
    /\ trace[Len(trace) - 1].op = "insert"
    /\ Len(trace[Len(trace) - 1].arg) = 1
    /\ trace[Len(trace)].op = "summary"
    /\ trace[Len(trace)].arg = dsid

\* C10: while the session is open the rows sent so far followed by the
\* buffered rows are the rows written, in order; once close() has been
\* called the batches sent, concatenated in request order, are exactly the
\* rows written in write order, whatever the insert responses were; the row
\* index counts the write_row calls.
C10_RowsConservedInOrder ==
    /\ pc = "opened" =>
          /\ ConcatArgs(Inserts) \o row_buffer = written
          /\ row_index = Len(written)
    /\ CloseCalled =>
          /\ ConcatArgs(Inserts) = written
          /\ row_index = Len(written)

C10_Witness ==
    /\ pc = "closed" /\ pbi_buffer_size = 1
    /\ Len(written) = 4 /\ row_index = 4
    /\ Len(Inserts) = 2
    /\ Inserts[1].response.status_code = 500
    /\ written[1] # written[2]

\* ---------------------------------------- PowerBI.get_group_id_by_name
\* str.lower() on the names that occur
Lower(name) ==
    CASE name \in {"Sales Team", "SALES TEAM", "sales team"} -> "sales team"
      [] name \in {"My workspace", "my workspace"} -> "my workspace"
      [] name \in {"Finance", "finance"} -> "finance"
      [] name \in {"Marketing", "marketing"} -> "marketing"
      [] name \in {"Sales", "sales"} -> "sales"
      [] OTHER -> name

\* filter_group_by_name: the first group whose name matches, ignoring case;
\* a group without "name" counts as named ""
RECURSIVE filter_group_by_name(_, _)
filter_group_by_name(groups, pbi_workspace) ==
    IF groups = <<>> THEN EmptyDict
    ELSE IF Lower(IF "name" \in DOMAIN Head(groups) THEN Head(groups).name ELSE "")
            = Lower(pbi_workspace)
         THEN Head(groups)
         ELSE filter_group_by_name(Tail(groups), pbi_workspace)

GroupsDenied == [s \in {401} |-> "No access to groups/workspaces lists. Please check your access rights."]

\* PowerBI.get: GET, assert_response_ok(custom_error_messages), response.json()
get(response, custom_error_messages) ==
    LET checked == assert_response_ok(response, None, TRUE, custom_error_messages)
    IN  IF Raises(checked)
        THEN [raised |-> TRUE, message |-> checked.message, value |-> EmptyDict]
        ELSE IF ~response.is_json
        THEN [raised |-> TRUE, message |-> [fmt |-> "ValueError", args |-> <<>>],
              value |-> EmptyDict]
        ELSE [raised |-> FALSE, message |-> NoMessage, value |-> response.json]

NotFound(pbi_workspace) ==
    [fmt |-> "The workspace named \"{workspace}\" does not exists on your Power BI account, or you do not have access to it",
     args |-> <<pbi_workspace>>]

\* get_group_id_by_name: requests counts the GETs sent to the groups endpoint
get_group_id_by_name(pbi_workspace, response) ==
    IF pbi_workspace = None \/ pbi_workspace = "My workspace"
    THEN [requests |-> 0, outcome |-> "returned", value |-> None, message |-> NoMessage]
    ELSE
      LET json_response == get(response, GroupsDenied)
          groups == IF "value" \in DOMAIN json_response.value
                    THEN json_response.value.value ELSE <<>>
          group == filter_group_by_name(groups, pbi_workspace)
          group_id == PyGet(group, "id")
      IN  IF json_response.raised
          THEN [requests |-> 1, outcome |-> "raised", value |-> None,
                message |-> json_response.message]
          ELSE IF group_id = None
          THEN [requests |-> 1, outcome |-> "raised", value |-> None,
                message |-> NotFound(pbi_workspace)]
          ELSE [requests |-> 1, outcome |-> "returned", value |-> group_id,
                message |-> NoMessage]

Workspaces == {None, "My workspace", "", "Sales Team", "sales team", "Finance"}

Groups ==
    {[id |-> "g-1", name |-> "Sales Team"],
     [id |-> "g-2", name |-> "SALES TEAM"],
     [id |-> "g-3", name |-> "Marketing"],
     [id |-> "g-4"]}

GroupListings == UNION {[1..n -> Groups] : n \in 0..MaxGroups}

GroupResponses ==
    {Resp(200, TRUE, [value |-> g], "groups") : g \in GroupListings}
    \cup {Resp(200, TRUE, EmptyDict, "{}"),
          Resp(401, TRUE, ErrorBody, "denied"),
          Resp(200, FALSE, EmptyDict, "html")}

SessionIdle ==
    /\ pc = "start" /\ aborted_in = None
    /\ pbi_overwrite = FALSE /\ pbi_buffer_size = 0
    /\ schema = <<>> /\ row_index = 0 /\ row_buffer = <<>>
    /\ dsid = None /\ trace = <<>> /\ written = <<>>

sessionVars == <<pc, aborted_in, pbi_overwrite, pbi_buffer_size, schema, row_index,
                 row_buffer, dsid, trace, written>>

InitGroup ==
    /\ SessionIdle
    /\ lib \in {[fn |-> "get_group_id_by_name", done |-> FALSE,
                 pbi_workspace |-> w, response |-> r, out |-> None] :
                   w \in Workspaces, r \in GroupResponses}

GetGroupId ==
    /\ lib.fn = "get_group_id_by_name" /\ ~lib.done
    /\ lib' = [lib EXCEPT !.done = TRUE,
                          !.out = get_group_id_by_name(lib.pbi_workspace, lib.response)]
    /\ UNCHANGED sessionVars

SpecGroup == InitGroup /\ [][GetGroupId]_vars

\* the listed groups whose name equals the workspace name, ignoring case
GroupMatches(pbi_workspace, response) ==
    LET groups == IF response.is_json /\ "value" \in DOMAIN response.json
                  THEN response.json.value ELSE <<>>
    IN  {i \in 1..Len(groups) :
            /\ "name" \in DOMAIN groups[i]
            /\ Lower(groups[i].name) = Lower(pbi_workspace)}

\* C8 as claimed: for "My workspace" and for "" the call returns None and
\* sends nothing; for any other name it sends the listing request, and when
\* the listing arrives and no group matches ignoring case it raises the
\* workspace-not-found error.
C8_SentinelsSkipLookup ==
    (lib.fn = "get_group_id_by_name" /\ lib.done /\ lib.pbi_workspace # None) =>
        IF lib.pbi_workspace \in {"My workspace", ""}
        THEN /\ lib.out.requests = 0
             /\ lib.out.outcome = "returned"
             /\ lib.out.value = None
        ELSE /\ lib.out.requests = 1
             /\ (/\ lib.response.status_code < 400
                 /\ lib.response.is_json
                 /\ GroupMatches(lib.pbi_workspace, lib.response) = {}) =>
                    /\ lib.out.outcome = "raised"
                    /\ lib.out.message = NotFound(lib.pbi_workspace)

\* ------------------------------------------------- assert_response_ok
ErrorStatuses == {200, 302, 400, 401, 500}

ErrorBodies ==
    {[is_json |-> TRUE, json |-> ErrorBody, content |-> "raw: denied"],
     [is_json |-> TRUE, json |-> [error |-> [code |-> "E1"]], content |-> "raw: E1"],
     [is_json |-> TRUE, json |-> [detail |-> "x"], content |-> "raw: detail"],
     [is_json |-> FALSE, json |-> EmptyDict, content |-> "raw: html"]}

Contexts == {None, "deleting ds-1", "retrieving access token"}

CustomMessages == {EmptyDict, GroupsDenied}

InitErr ==
    /\ SessionIdle
    /\ lib \in {[fn |-> "assert_response_ok", done |-> FALSE,
                 response |-> Resp(st, b.is_json, b.json, b.content),
                 while_trying |-> w, fail_on_errors |-> f,
                 custom_error_messages |-> c, out |-> None] :
                   st \in ErrorStatuses, b \in ErrorBodies, w \in Contexts,
                   f \in BOOLEAN, c \in CustomMessages}

AssertResponseOk ==
    /\ lib.fn = "assert_response_ok" /\ ~lib.done
    /\ lib' = [lib EXCEPT !.done = TRUE,
                          !.out = assert_response_ok(lib.response, lib.while_trying,
                                                     lib.fail_on_errors,
                                                     lib.custom_error_messages)]
    /\ UNCHANGED sessionVars

SpecErr == InitErr /\ [][AssertResponseOk]_vars

\* the text a classified message carries: its last format argument
Payload(message) == message.args[Len(message.args)]

HasNested(response) ==
    /\ response.is_json
    /\ "error" \in DOMAIN response.json
    /\ "message" \in DOMAIN response.json.error

Classified == lib.fn = "assert_response_ok" /\ lib.done /\ lib.response.status_code >= 400

RaisedOrLogged ==
    lib.out.outcome = (IF lib.fail_on_errors THEN "raised" ELSE "logged")

\* C9 as claimed: for status >= 400 the message text is the custom message
\* keyed by the status, else the body's error.message, else the raw body, at
\* every call site, with or without while_trying; raised unless best-effort.
C9_StrictPriority ==
    Classified =>
        /\ Payload(lib.out.message) =
              (IF lib.response.status_code \in DOMAIN lib.custom_error_messages
               THEN lib.custom_error_messages[lib.response.status_code]
               ELSE IF HasNested(lib.response)
               THEN lib.response.json.error.message
               ELSE lib.response.content)
        /\ RaisedOrLogged

\* C9 amended: the custom message keyed by the status comes first at every
\* call site; otherwise a call without while_trying takes the body's
\* error.message when present and the raw body when not, and a call with
\* while_trying takes the raw body whether or not error.message is present;
\* the message is raised unless the call is best-effort, then it is logged;
\* a status below 400 classifies nothing.
C9_PriorityWithoutContext ==
    /\ Classified =>
        /\ Payload(lib.out.message) =
              (IF lib.response.status_code \in DOMAIN lib.custom_error_messages
               THEN lib.custom_error_messages[lib.response.status_code]
               ELSE IF lib.while_trying = None /\ HasNested(lib.response)
               THEN lib.response.json.error.message
               ELSE lib.response.content)
        /\ RaisedOrLogged
    /\ (lib.fn = "assert_response_ok" /\ lib.done /\ lib.response.status_code < 400) =>
          lib.out.outcome = "ok"

C9_Witness ==
    /\ Classified
    /\ lib.while_trying # None
    /\ HasNested(lib.response)
    /\ lib.response.status_code \notin DOMAIN lib.custom_error_messages
    /\ Payload(lib.out.message) = lib.response.content
    /\ lib.out.outcome = "raised"

====
